---- MODULE Spec2Model ----
(***************************************************************************)
(* Model of the go-links service (olympus/portainer-config/golinks/main.go) *)
(*                                                                         *)
(* State: the links table of the SQLite database, the two admin            *)
(* credentials read from the environment at start-up, and the request      *)
(* most recently served together with the response written for it.        *)
(*                                                                         *)
(* Go strings are sequences of one-character strings, so that             *)
(* strings.TrimSpace, strings.HasPrefix and url.Parse are computed and     *)
(* not assumed.                                                            *)
(***************************************************************************)
EXTENDS Naturals, Sequences, FiniteSets, TLC

VARIABLES
  links,      \* the rows of table links (initDB, main.go:84-94)
  adminUser,  \* ADMIN_USER, read once in main (main.go:44)
  adminPass,  \* ADMIN_PASS, read once in main (main.go:45)
  last,       \* the request served last and the response written for it
  handlers    \* SpecConc: the handler goroutines of /admin/add in flight

vars == <<links, adminUser, adminPass, last, handlers>>

(***************************************************************************)
(* Bounds                                                                  *)
(***************************************************************************)
\* CURRENT_TIMESTAMP takes a value in 0..MaxTime
MaxTime == 1
\* number of handler goroutines in the concurrent specification
NumHandlers == 2

Times == 0 .. MaxTime

(***************************************************************************)
(* Characters and the string helpers of package strings                    *)
(***************************************************************************)
Letters == {"a", "b", "c", "d", "e", "f", "g", "h", "i", "j", "k", "l", "m",
            "n", "o", "p", "q", "r", "s", "t", "u", "v", "w", "x", "y", "z"}
Digits == {"0", "1", "2", "3", "4", "5", "6", "7", "8", "9"}

\* unicode.IsSpace restricted to the ASCII white space
IsSpace(c) == c \in {" ", "\t", "\n", "\r", "\f"}

RECURSIVE TrimLeft(_)
TrimLeft(s) ==
  IF s = <<>> THEN s
  ELSE IF IsSpace(Head(s)) THEN TrimLeft(Tail(s)) ELSE s

RECURSIVE TrimRight(_)
TrimRight(s) ==
  IF s = <<>> THEN s
  ELSE IF IsSpace(s[Len(s)]) THEN TrimRight(SubSeq(s, 1, Len(s) - 1)) ELSE s

\* strings.TrimSpace, mutated: trims the leading white space only
TrimSpaceLeftOnly(s) == TrimLeft(s)

\* strings.TrimSpace
TrimSpace(s) == TrimRight(TrimLeft(s))

\* strings.HasPrefix
HasPrefix(s, p) == Len(s) >= Len(p) /\ SubSeq(s, 1, Len(p)) = p

\* strings.IndexByte, 1-based, 0 when absent
Index(s, c) ==
  IF \E i \in 1 .. Len(s) : s[i] = c
  THEN CHOOSE i \in 1 .. Len(s) : s[i] = c /\ \A j \in 1 .. (i - 1) : s[j] # c
  ELSE 0

\* strings.LastIndexByte, 1-based, 0 when absent
LastIndex(s, c) ==
  IF \E i \in 1 .. Len(s) : s[i] = c
  THEN CHOOSE i \in 1 .. Len(s) : s[i] = c /\ \A j \in (i + 1) .. Len(s) : s[j] # c
  ELSE 0

\* s[:i-1] and s[i+1:] around the 1-based position i
Before(s, i) == SubSeq(s, 1, i - 1)
After(s, i) == SubSeq(s, i + 1, Len(s))

(***************************************************************************)
(* net/url.Parse, as far as isValidURL reads its result (Scheme, Host and  *)
(* the error).  Inputs hold no '%' and no '[', so the escape decoding and  *)
(* the IPv6 literal branch of the parser are not exercised.                *)
(***************************************************************************)
CtlBytes == {"\t", "\n", "\r", "\f"}

\* bytes that unescape(host, encodeHost) accepts unescaped
HostBytes == Letters \cup Digits \cup
             {"-", "_", ".", "~", "!", "$", "&", "(", ")", "*", "+", ",", ";", "=", ":"}

\* bytes that validUserinfo accepts
UserinfoBytes == Letters \cup Digits \cup
                 {"-", ".", "_", ":", "~", "!", "$", "&", "(", ")", "*", "+", ",", ";", "=", "@"}

\* getScheme: position of the ':' ending the scheme, "none" without scheme
RECURSIVE getScheme(_, _)
getScheme(raw, i) ==
  IF i > Len(raw) THEN [kind |-> "none", at |-> 0]
  ELSE IF raw[i] \in Letters THEN getScheme(raw, i + 1)
  ELSE IF raw[i] \in Digits \cup {"+", "-", "."}
       THEN IF i = 1 THEN [kind |-> "none", at |-> 0] ELSE getScheme(raw, i + 1)
  ELSE IF raw[i] = ":"
       THEN IF i = 1 THEN [kind |-> "err", at |-> 0] ELSE [kind |-> "colon", at |-> i]
  ELSE [kind |-> "none", at |-> 0]

\* validOptionalPort: "" or ':' followed by digits only
validOptionalPort(port) ==
  \/ port = <<>>
  \/ /\ Head(port) = ":"
     /\ \A i \in 2 .. Len(port) : port[i] \in Digits

\* parseHost, given the position i of the last ':' of host (0: none)
parseHostAt(host, i) ==
  IF i # 0 /\ ~validOptionalPort(SubSeq(host, i, Len(host)))
  THEN [err |-> TRUE, Host |-> <<>>]
  ELSE IF \E k \in 1 .. Len(host) : host[k] \notin HostBytes
  THEN [err |-> TRUE, Host |-> <<>>]
  ELSE [err |-> FALSE, Host |-> host]

\* parseHost
parseHost(host) == parseHostAt(host, LastIndex(host, ":"))

\* parseAuthority, given the position i of the last '@' of authority (0: none)
parseAuthorityAt(authority, i) ==
  IF i = 0 THEN parseHost(authority)
  ELSE IF \E k \in 1 .. (i - 1) : authority[k] \notin UserinfoBytes
  THEN [err |-> TRUE, Host |-> <<>>]
  ELSE parseHost(After(authority, i))

\* parseAuthority
parseAuthority(authority) == parseAuthorityAt(authority, LastIndex(authority, "@"))

\* s up to the first c, all of s when c is absent (strings.Cut, before)
CutAt(s, i) == IF i = 0 THEN s ELSE Before(s, i)
CutBefore(s, c) == CutAt(s, Index(s, c))

BadURL == [err |-> TRUE, Scheme |-> <<>>, Host |-> <<>>]
URL(Scheme, Host) == [err |-> FALSE, Scheme |-> Scheme, Host |-> Host]

\* parse: the result for the authority found after "//"
withAuthority(Scheme, h) == IF h.err THEN BadURL ELSE URL(Scheme, h.Host)

\* parse: a path without leading '/' and without scheme must not hold a ':'
\* in its first segment
colonInFirstSegment(colon, slash) == colon # 0 /\ (slash = 0 \/ colon < slash)

\* parse, after the scheme and the query are split off
parseRest(Scheme, rest) ==
  IF ~HasPrefix(rest, <<"/">>)
  THEN IF Scheme # <<>> THEN URL(Scheme, <<>>)
       ELSE IF colonInFirstSegment(Index(rest, ":"), Index(rest, "/")) THEN BadURL
       ELSE URL(Scheme, <<>>)
  ELSE IF (Scheme # <<>> \/ ~HasPrefix(rest, <<"/", "/", "/">>))
           /\ HasPrefix(rest, <<"/", "/">>)
  THEN withAuthority(Scheme,
                     parseAuthority(CutBefore(SubSeq(rest, 3, Len(rest)), "/")))
  ELSE URL(Scheme, <<>>)

\* parse, given the result sch of getScheme
parseScheme(u, sch) ==
  IF sch.kind = "err" THEN BadURL
  ELSE IF sch.kind = "colon"
  THEN parseRest(Before(u, sch.at), CutBefore(After(u, sch.at), "?"))
  ELSE parseRest(<<>>, CutBefore(u, "?"))

\* parse(rawURL, viaRequest = false)
parse(u) ==
  IF \E k \in 1 .. Len(u) : u[k] \in CtlBytes THEN BadURL
  ELSE parseScheme(u, getScheme(u, 1))

\* url.Parse: [err, Scheme, Host]; the fragment is cut off first
Parse(rawURL) == parse(CutBefore(rawURL, "#"))

HttpPrefix == <<"h", "t", "t", "p", ":", "/", "/">>
HttpsPrefix == <<"h", "t", "t", "p", "s", ":", "/", "/">>

\* isValidURL line 430
parsedOK(parsedURL) ==
  ~parsedURL.err /\ parsedURL.Scheme # <<>> /\ parsedURL.Host # <<>>

\* isValidURL, mutated: the scheme prefixes are not checked
isValidURLNoPrefix(urlStr) == parsedOK(Parse(urlStr))

\* isValidURL
isValidURL(urlStr) ==
  IF ~HasPrefix(urlStr, HttpPrefix) /\ ~HasPrefix(urlStr, HttpsPrefix)
  THEN FALSE
  ELSE parsedOK(Parse(urlStr))

(***************************************************************************)
(* The links table (initDB) and the four store functions.  A row is        *)
(* [slug, url, created_at]; the table is the set of its rows, and the      *)
(* PRIMARY KEY constraint is enforced where SQLite enforces it: in INSERT. *)
(* dbFault stands for a driver error other than a constraint violation.    *)
(***************************************************************************)
Row(slug, url, t) == [slug |-> slug, url |-> url, created_at |-> t]

RowsOf(db, slug) == {row \in db : row.slug = slug}

\* getLink: SELECT ... WHERE slug = ?  (sql.ErrNoRows and any other error)
getLink(db, slug, dbFault) ==
  IF dbFault \/ RowsOf(db, slug) = {}
  THEN [err |-> TRUE, link |-> Row(<<>>, <<>>, 0)]
  ELSE [err |-> FALSE, link |-> CHOOSE row \in RowsOf(db, slug) : TRUE]

\* getAllLinks: the orders SELECT ... ORDER BY created_at DESC may return
getAllLinks(db) ==
  LET n == Cardinality(db) IN
  {order \in [1 .. n -> db] :
     /\ \A i, j \in 1 .. n : i # j => order[i] # order[j]
     /\ \A i, j \in 1 .. n : i < j => order[i].created_at >= order[j].created_at}

\* addLink, mutated: the table has no PRIMARY KEY constraint
addLinkNoKey(db, slug, url, t, dbFault) ==
  IF dbFault THEN [err |-> "other", db |-> db]
  ELSE [err |-> "nil", db |-> db \cup {Row(slug, url, t)}]

\* addLink, mutated: INSERT OR REPLACE
addLinkReplace(db, slug, url, t, dbFault) ==
  IF dbFault THEN [err |-> "other", db |-> db]
  ELSE [err |-> "nil", db |-> (db \ RowsOf(db, slug)) \cup {Row(slug, url, t)}]

\* addLink: INSERT INTO links (slug, url) VALUES (?, ?)
addLink(db, slug, url, t, dbFault) ==
  IF dbFault THEN [err |-> "other", db |-> db]
  ELSE IF RowsOf(db, slug) # {} THEN [err |-> "UNIQUE constraint", db |-> db]
  ELSE [err |-> "nil", db |-> db \cup {Row(slug, url, t)}]

\* removeLink: DELETE FROM links WHERE slug = ?, then RowsAffected
removeLink(db, slug, dbFault) ==
  IF dbFault THEN [err |-> "other", db |-> db]
  ELSE IF Cardinality(RowsOf(db, slug)) = 0 THEN [err |-> "not found", db |-> db]
  ELSE [err |-> "nil", db |-> db \ RowsOf(db, slug)]

(***************************************************************************)
(* Requests and responses                                                  *)
(***************************************************************************)
StrAdmin == <<"a", "d", "m", "i", "n">>
PathAdminAdd == <<"/">> \o StrAdmin \o <<"/", "a", "d", "d">>
PathAdminRemove == <<"/">> \o StrAdmin \o <<"/", "r", "e", "m", "o", "v", "e">>

\* http.StatusXxx
StatusOK == 200
StatusCreated == 201
StatusFound == 302
StatusBadRequest == 400
StatusUnauthorized == 401
StatusNotFound == 404
StatusMethodNotAllowed == 405
StatusConflict == 409
StatusInternalServerError == 500

\* what a handler writes: status, the text of http.Error or the JSON
\* "status" field, the Location header, the JSON slug and url, the listing
Resp(status, msg, location, slug, url, listing) ==
  [status |-> status, msg |-> msg, location |-> location,
   slug |-> slug, url |-> url, listing |-> listing]

Error(msg, status) == Resp(status, msg, <<>>, <<>>, <<>>, <<>>)

(***************************************************************************)
(* handleRoot, handleListLinks                                             *)
(***************************************************************************)
\* strings.TrimPrefix(r.URL.Path, "/")
TrimPrefixSlash(path) == IF HasPrefix(path, <<"/">>) THEN Tail(path) ELSE path

\* handleListLinks with the rows in the order getAllLinks returned them
handleListLinks(order, dbFault) ==
  IF dbFault THEN Error("Internal server error", StatusInternalServerError)
  ELSE Resp(StatusOK, "listing", <<>>, <<>>, <<>>, order)

\* handleRoot lines 111-119, given what getLink returned
redirect(got) ==
  IF got.err THEN Error("404 page not found", StatusNotFound)
  ELSE Resp(StatusFound, "Found", got.link.url, <<>>, <<>>, <<>>)

\* handleRoot, given path = strings.TrimPrefix(r.URL.Path, "/")
handleSlug(path, db, order, dbFault) ==
  IF path = <<>> THEN handleListLinks(order, dbFault)
  ELSE redirect(getLink(db, path, dbFault))

\* handleRoot
handleRoot(r, db, order, dbFault) ==
  handleSlug(TrimPrefixSlash(r.path), db, order, dbFault)

(***************************************************************************)
(* handleAdminAdd: the checks before the store call, then the store call   *)
(***************************************************************************)
Rejected(resp) == [done |-> TRUE, resp |-> resp, slug |-> <<>>, url |-> <<>>]
Validated(slug, url) == [done |-> FALSE, resp |-> Error("", 0), slug |-> slug, url |-> url]

\* handleAdminAdd lines 274-286, given the trimmed slug and url
validateAdd(slug, url) ==
  IF slug = <<>> \/ slug = StrAdmin
  THEN Rejected(Error("Invalid slug", StatusBadRequest))
  ELSE IF ~isValidURL(url) THEN Rejected(Error("Invalid URL", StatusBadRequest))
  ELSE Validated(slug, url)

\* handleAdminAdd lines 263-286, mutated: the method is not checked
addPrepareAnyMethod(r) ==
  IF ~r.body.ok THEN Rejected(Error("Invalid JSON", StatusBadRequest))
  ELSE validateAdd(TrimSpace(r.body.slug), TrimSpace(r.body.url))

\* handleAdminAdd lines 263-286: method, JSON body, slug, URL
addPrepare(r) ==
  IF r.method # "POST" THEN Rejected(Error("Method not allowed", StatusMethodNotAllowed))
  ELSE IF ~r.body.ok THEN Rejected(Error("Invalid JSON", StatusBadRequest))
  ELSE validateAdd(TrimSpace(r.body.slug), TrimSpace(r.body.url))

\* handleAdminAdd lines 289-307, given what addLink returned
addRespond(slug, url, ins) ==
  IF ins.err # "nil"
  THEN IF ins.err = "UNIQUE constraint"
       THEN [resp |-> Error("Slug already exists", StatusConflict), db |-> ins.db]
       ELSE [resp |-> Error("Internal server error", StatusInternalServerError),
             db |-> ins.db]
  ELSE [resp |-> Resp(StatusCreated, "created", <<>>, slug, url, <<>>), db |-> ins.db]

\* handleAdminAdd lines 288-307: addLink and the response
addFinish(slug, url, db, t, dbFault) ==
  addRespond(slug, url, addLink(db, slug, url, t, dbFault))

\* handleAdminAdd, given the outcome p of its checks
addAfter(p, db, t, dbFault) ==
  IF p.done THEN [resp |-> p.resp, db |-> db]
  ELSE addFinish(p.slug, p.url, db, t, dbFault)

\* handleAdminAdd
handleAdminAdd(r, db, t, dbFault) == addAfter(addPrepare(r), db, t, dbFault)

(***************************************************************************)
(* handleAdminRemove                                                       *)
(***************************************************************************)
\* handleAdminRemove lines 322-326, given the trimmed slug
validateRemove(slug) ==
  IF slug = <<>> \/ slug = StrAdmin
  THEN Rejected(Error("Invalid slug", StatusBadRequest))
  ELSE Validated(slug, <<>>)

\* handleAdminRemove lines 311-326: method, JSON body, slug
removePrepare(r) ==
  IF r.method # "POST" THEN Rejected(Error("Method not allowed", StatusMethodNotAllowed))
  ELSE IF ~r.body.ok THEN Rejected(Error("Invalid JSON", StatusBadRequest))
  ELSE validateRemove(TrimSpace(r.body.slug))

\* handleAdminRemove lines 328-344, given what removeLink returned
removeRespond(slug, del) ==
  IF del.err # "nil"
  THEN IF del.err = "not found"
       THEN [resp |-> Error("Slug not found", StatusNotFound), db |-> del.db]
       ELSE [resp |-> Error("Internal server error", StatusInternalServerError),
             db |-> del.db]
  ELSE [resp |-> Resp(StatusOK, "removed", <<>>, slug, <<>>, <<>>), db |-> del.db]

\* handleAdminRemove lines 328-344: removeLink and the response
removeFinish(slug, db, dbFault) == removeRespond(slug, removeLink(db, slug, dbFault))

\* handleAdminRemove, given the outcome p of its checks
removeAfter(p, db, dbFault) ==
  IF p.done THEN [resp |-> p.resp, db |-> db]
  ELSE removeFinish(p.slug, db, dbFault)

\* handleAdminRemove
handleAdminRemove(r, db, dbFault) == removeAfter(removePrepare(r), db, dbFault)

(***************************************************************************)
(* basicAuth: next is what the wrapped handler does with the request       *)
(***************************************************************************)
Invoke(next) == [resp |-> next.resp, db |-> next.db, invoked |-> TRUE]

\* basicAuth, mutated: the password is not compared
basicAuthUserOnly(r, user, pass, db, next) ==
  IF user = "" \/ pass = "" THEN Invoke(next)
  ELSE IF ~r.auth.ok \/ r.auth.user # user
  THEN [resp |-> Error("Unauthorized", StatusUnauthorized), db |-> db, invoked |-> FALSE]
  ELSE Invoke(next)

\* basicAuth, mutated: the gate is open only when both credentials are unset
basicAuthBothUnset(r, user, pass, db, next) ==
  IF user = "" /\ pass = "" THEN Invoke(next)
  ELSE IF ~r.auth.ok \/ r.auth.user # user \/ r.auth.pass # pass
  THEN [resp |-> Error("Unauthorized", StatusUnauthorized), db |-> db, invoked |-> FALSE]
  ELSE Invoke(next)

\* basicAuth
basicAuth(r, user, pass, db, next) ==
  IF user = "" \/ pass = "" THEN Invoke(next)
  ELSE IF ~r.auth.ok \/ r.auth.user # user \/ r.auth.pass # pass
  THEN [resp |-> Error("Unauthorized", StatusUnauthorized), db |-> db, invoked |-> FALSE]
  ELSE Invoke(next)

\* the routes registered in main: the two exact admin paths, "/" for the rest
Route(path) ==
  IF path = PathAdminAdd THEN "handleAdminAdd"
  ELSE IF path = PathAdminRemove THEN "handleAdminRemove"
  ELSE "handleRoot"

(***************************************************************************)
(* The requests the model sends                                            *)
(***************************************************************************)
StrEmpty == <<>>
StrWiki == <<"w", "i", "k", "i">>
StrWikiPadded == <<" ">> \o StrWiki \o <<"\t">>
StrAdminPadded == <<" ">> \o StrAdmin
StrAdminAdd == Tail(PathAdminAdd)

SlugInputs == {StrEmpty, StrAdmin, StrAdminPadded, StrWiki, StrWikiPadded, StrAdminAdd}

UrlWiki == HttpsPrefix \o <<"w", ".", "i", "o">>
UrlX == HttpPrefix \o <<"x", ".", "c", "o", "m">>
UrlXPadded == <<" ">> \o UrlX \o <<" ">>
UrlFtp == <<"f", "t", "p", ":", "/", "/", "x", ".", "c", "o", "m">>
UrlNot == <<"n", "o", "t", " ", "a", " ", "u", "r", "l">>
UrlNoHost == HttpPrefix
UrlNoHostPath == HttpsPrefix \o <<"/", "p">>
UrlBadHost == HttpPrefix \o <<"x", " ", "y">>

UrlInputs == {StrEmpty, UrlWiki, UrlX, UrlXPadded, UrlFtp, UrlNot,
              UrlNoHost, UrlNoHostPath, UrlBadHost}

Methods == {"GET", "POST"}

\* r.BasicAuth(): no Authorization header, or the user and password of one
NoAuth == [ok |-> FALSE, user |-> "", pass |-> ""]
Auths == {NoAuth} \cup [ok : {TRUE}, user : {"root", "eve"}, pass : {"pw", "x"}]

\* the environment: ADMIN_USER and ADMIN_PASS, set or not
UserConfigs == {"", "root"}
PassConfigs == {"", "pw"}

\* json.Decoder.Decode: a body that does not decode, or the decoded fields
\* (a missing field decodes to the empty string)
BadBody == [ok |-> FALSE, slug |-> <<>>, url |-> <<>>]
Body(slug, url) == [ok |-> TRUE, slug |-> slug, url |-> url]

\* every slug with one good URL, and every URL with the two storable slugs
AddBodies ==
  {BadBody}
  \cup {Body(slug, UrlWiki) : slug \in SlugInputs}
  \cup {Body(slug, url) : slug \in {StrWiki, StrAdminAdd}, url \in UrlInputs}
RemoveBodies == {BadBody} \cup {Body(slug, StrEmpty) : slug \in SlugInputs}

GoodAuth == [ok |-> TRUE, user |-> "root", pass |-> "pw"]

Req(method, path, auth, body) ==
  [method |-> method, path |-> path, auth |-> auth, body |-> body]

Paths == {<<"/">> \o s : s \in SlugInputs} \cup {PathAdminRemove}

\* every method and every credential with one good body, every body with
\* POST and the configured credentials, and GET of every path
Requests ==
  {Req(m, PathAdminAdd, a, Body(StrWiki, UrlWiki)) : m \in Methods, a \in Auths}
  \cup {Req("POST", PathAdminAdd, GoodAuth, b) : b \in AddBodies}
  \cup {Req(m, PathAdminRemove, a, Body(StrWiki, StrEmpty)) : m \in Methods, a \in Auths}
  \cup {Req("POST", PathAdminRemove, GoodAuth, b) : b \in RemoveBodies}
  \cup {Req("GET", path, NoAuth, BadBody) : path \in Paths}

NoRequest == [method |-> "", path |-> <<>>, auth |-> NoAuth, body |-> BadBody]

\* the request served last, by which handler, and what was written for it
Served(handler, r, out, dbFault) ==
  [handler |-> handler, req |-> r, resp |-> out.resp,
   invoked |-> out.invoked, dbFault |-> dbFault]

Idle == [pc |-> "idle", req |-> NoRequest, slug |-> <<>>, url |-> <<>>,
         resp |-> Error("", 0), dbFault |-> FALSE]

(***************************************************************************)
(* Init: a fresh database; the credentials are fixed for the process       *)
(***************************************************************************)
Init ==
  /\ links = {}
  /\ adminUser \in UserConfigs
  /\ adminPass \in PassConfigs
  /\ last = [handler |-> "none", req |-> NoRequest, resp |-> Error("", 0),
             invoked |-> FALSE, dbFault |-> FALSE]
  /\ handlers = [h \in 1 .. NumHandlers |-> Idle]

\* does the request get past basicAuth
Admitted(r) ==
  basicAuth(r, adminUser, adminPass, links, [resp |-> Error("", 0), db |-> links]).invoked

(***************************************************************************)
(* Spec: every request is served to completion before the next one         *)
(***************************************************************************)
\* the response is written and the store is as the handler left it
Respond(handler, r, out, dbFault) ==
  /\ links' = out.db
  /\ last' = Served(handler, r, out, dbFault)
  /\ UNCHANGED <<adminUser, adminPass, handlers>>

\* the values CURRENT_TIMESTAMP and the driver may take in a store call
StoreTimes(store) == IF store THEN Times ELSE {0}
StoreFaults(store) == IF store THEN BOOLEAN ELSE {FALSE}

\* a request to /admin/add: basicAuth(handleAdminAdd)
ServeAdminAdd ==
  \E r \in Requests :
    /\ Route(r.path) = "handleAdminAdd"
    /\ \E t \in StoreTimes(Admitted(r) /\ ~addPrepare(r).done),
          dbFault \in StoreFaults(Admitted(r) /\ ~addPrepare(r).done) :
         Respond("handleAdminAdd", r,
                 basicAuth(r, adminUser, adminPass, links,
                           handleAdminAdd(r, links, t, dbFault)),
                 dbFault)

\* a request to /admin/remove: basicAuth(handleAdminRemove)
ServeAdminRemove ==
  \E r \in Requests :
    /\ Route(r.path) = "handleAdminRemove"
    /\ \E dbFault \in StoreFaults(Admitted(r) /\ ~removePrepare(r).done) :
         Respond("handleAdminRemove", r,
                 basicAuth(r, adminUser, adminPass, links,
                           handleAdminRemove(r, links, dbFault)),
                 dbFault)

\* the rows handleListLinks may get for the path, none for a slug lookup
Orders(path) == IF TrimPrefixSlash(path) = <<>> THEN getAllLinks(links) ELSE {<<>>}

\* a request to any other path: handleRoot, which is not behind basicAuth
ServeRoot ==
  \E r \in Requests :
    /\ Route(r.path) = "handleRoot"
    /\ \E dbFault \in BOOLEAN, order \in Orders(r.path) :
         Respond("handleRoot", r,
                 [resp |-> handleRoot(r, links, order, dbFault),
                  db |-> links, invoked |-> TRUE],
                 dbFault)

Next == ServeAdminAdd \/ ServeAdminRemove \/ ServeRoot

Spec == Init /\ [][Next]_vars

(***************************************************************************)
(* SpecConc: net/http runs every handler in a goroutine of its own.  A     *)
(* handler for /admin/add first works on its own request (basicAuth, the   *)
(* checks of handleAdminAdd), then makes its one store call; the INSERT is *)
(* one atomic step of the database, and the response is written by the     *)
(* same goroutine with no shared state in between.                         *)
(***************************************************************************)
ConcRequests ==
  {Req("POST", PathAdminAdd, GoodAuth, Body(slug, url)) :
     slug \in {StrWiki, StrWikiPadded, StrAdminAdd}, url \in {UrlWiki, UrlX}}
  \cup {Req("POST", PathAdminAdd, GoodAuth, Body(StrAdmin, UrlWiki))}

\* where the handler stands after basicAuth and the checks of handleAdminAdd
Accepted(r, p, gate) ==
  IF ~gate.invoked \/ p.done
  THEN [pc |-> "done", req |-> r, slug |-> <<>>, url |-> <<>>,
        resp |-> gate.resp, dbFault |-> FALSE]
  ELSE [pc |-> "addLink", req |-> r, slug |-> p.slug, url |-> p.url,
        resp |-> Error("", 0), dbFault |-> FALSE]

\* basicAuth and handleAdminAdd up to the call of addLink
Accept(h) ==
  /\ handlers[h].pc = "idle"
  /\ \E r \in ConcRequests :
       handlers' = [handlers EXCEPT ![h] =
         Accepted(r, addPrepare(r),
                  basicAuth(r, adminUser, adminPass, links,
                            [resp |-> addPrepare(r).resp, db |-> links]))]
  /\ UNCHANGED <<links, adminUser, adminPass, last>>

\* the handler after addLink returned and the response is written
Inserted(h, out, dbFault) ==
  /\ links' = out.db
  /\ handlers' = [handlers EXCEPT ![h] =
       [@ EXCEPT !.pc = "done", !.resp = out.resp, !.dbFault = dbFault]]

\* addLink and the rest of handleAdminAdd
Insert(h) ==
  /\ handlers[h].pc = "addLink"
  /\ \E t \in Times, dbFault \in BOOLEAN :
       Inserted(h, addFinish(handlers[h].slug, handlers[h].url, links, t, dbFault),
                dbFault)
  /\ UNCHANGED <<adminUser, adminPass, last>>

NextConc == \E h \in 1 .. NumHandlers : Accept(h) \/ Insert(h)

SpecConc == Init /\ [][NextConc]_vars

(***************************************************************************)
(* Vocabulary of the properties                                            *)
(***************************************************************************)
AdminHandlers == {"handleAdminAdd", "handleAdminRemove"}

\* the Access Gate configurations
Open == adminUser = "" \/ adminPass = ""
Guarded == adminUser # "" /\ adminPass # ""

\* the credentials of a request are absent or differ from the configured ones
Mismatch(auth) == ~auth.ok \/ auth.user # adminUser \/ auth.pass # adminPass

\* l records a GET of path
IsGet(l, path) == l.handler # "none" /\ l.req.method = "GET" /\ l.req.path = path

\* l records a POST with a decoded body that reached the handler h
Posted(l, h) ==
  l.handler = h /\ l.invoked /\ l.req.method = "POST" /\ l.req.body.ok

ValidSlug(slug) == slug # <<>> /\ slug # StrAdmin

\* C1: for all valid (slug, url) pairs, add(slug, url) via POST /admin/add
\* followed immediately by GET /<slug> returns a 302 redirect to exactly that
\* url.  Slug and url are taken as add stores them (trimmed), and the lookup
\* itself is taken not to fail in the driver.
C1_AddThenResolve ==
  [][(/\ last.handler = "handleAdminAdd"
      /\ last.resp.status = StatusCreated
      /\ IsGet(last', <<"/">> \o last.resp.slug)
      /\ ~last'.dbFault)
     => (/\ last'.resp.status = StatusFound
         /\ last'.resp.location = last.resp.url)]_vars

\* C1 off the admin routes: the same statement for the slugs whose path
\* /<slug> is not one of the two registered admin paths.
C1_OffAdminRoutes ==
  [][(/\ last.handler = "handleAdminAdd"
      /\ last.resp.status = StatusCreated
      /\ Route(<<"/">> \o last.resp.slug) = "handleRoot"
      /\ IsGet(last', <<"/">> \o last.resp.slug)
      /\ ~last'.dbFault)
     => (/\ last'.resp.status = StatusFound
         /\ last'.resp.location = last.resp.url)]_vars

\* C2: in the Guarded configuration a request to /admin/add or /admin/remove
\* whose credentials are absent or differ from the configured ones gets 401,
\* the wrapped handler is not invoked, and the links are unchanged.
C2_Unauthorized ==
  [][(Guarded /\ last'.handler \in AdminHandlers /\ Mismatch(last'.req.auth))
     => (/\ last'.resp.status = StatusUnauthorized
         /\ ~last'.invoked
         /\ links' = links)]_vars

C2_Witness ==
  /\ Guarded
  /\ last.handler = "handleAdminAdd"
  /\ last.req.method = "POST"
  /\ last.req.body = Body(StrWiki, UrlWiki)
  /\ last.req.auth = [ok |-> TRUE, user |-> "root", pass |-> "x"]
  /\ last.resp.status = StatusUnauthorized
  /\ RowsOf(links, StrWiki) = {}

\* C3 as stated: adding a slug that is already stored yields 409 whatever
\* url the second add carries, and the stored links stay as they are.
C3_ConflictAnyUrl ==
  [][(/\ Posted(last', "handleAdminAdd")
      /\ ~last'.dbFault
      /\ RowsOf(links, TrimSpace(last'.req.body.slug)) # {})
     => (last'.resp.status = StatusConflict /\ links' = links)]_vars

\* C3 amended: adding a slug that is already stored yields 409 whatever
\* valid url the second add carries (an invalid url yields 400), and the
\* url stored for the slug remains the one of the first add.
C3_ConflictValidUrl ==
  [][(/\ Posted(last', "handleAdminAdd")
      /\ ~last'.dbFault
      /\ RowsOf(links, TrimSpace(last'.req.body.slug)) # {}
      /\ isValidURL(TrimSpace(last'.req.body.url)))
     => (last'.resp.status = StatusConflict /\ links' = links)]_vars

C3_Witness ==
  /\ last.handler = "handleAdminAdd"
  /\ last.resp.status = StatusConflict
  /\ last.req.body.url = UrlX
  /\ \E row \in links : row.slug = TrimSpace(last.req.body.slug) /\ row.url = UrlWiki

\* the trimmed url does not start with http:// or https://, or its host is empty
NotHttpOrNoHost(url) ==
  \/ ~HasPrefix(url, HttpPrefix) /\ ~HasPrefix(url, HttpsPrefix)
  \/ Parse(url).Host = <<>>

\* C4: add is rejected with 400 whenever the trimmed slug is empty or "admin",
\* or the trimmed url does not start with http:// or https:// or has an empty
\* host; a rejected add leaves the links unchanged.  The four examples of the
\* specification are among the requests.
C4_ValidationRejects ==
  [][(/\ Posted(last', "handleAdminAdd")
      /\ \/ ~ValidSlug(TrimSpace(last'.req.body.slug))
         \/ NotHttpOrNoHost(TrimSpace(last'.req.body.url))
         \/ last'.req.body.slug \in {StrEmpty, StrAdmin}
         \/ last'.req.body.url \in {UrlFtp, UrlNot})
     => (last'.resp.status = StatusBadRequest /\ links' = links)]_vars

C4_Witness ==
  /\ Posted(last, "handleAdminAdd")
  /\ last.req.body = Body(StrWiki, UrlFtp)
  /\ last.resp.status = StatusBadRequest
  /\ links # {}

\* C5: a successful add(slug, url) followed by remove(slug) followed by
\* GET /<slug> yields 404; and remove of a slug that is not stored yields 404
\* and leaves the links unchanged.  Slugs are taken as the handlers store
\* them (trimmed), and the store calls are taken not to fail in the driver.
C5_AddRemoveResolve ==
  [][/\ (/\ last.handler = "handleAdminRemove"
         /\ last.resp.status = StatusOK
         /\ IsGet(last', <<"/">> \o last.resp.slug)
         /\ ~last'.dbFault)
        => last'.resp.status = StatusNotFound
     /\ (/\ Posted(last', "handleAdminRemove")
         /\ ~last'.dbFault
         /\ ValidSlug(TrimSpace(last'.req.body.slug))
         /\ RowsOf(links, TrimSpace(last'.req.body.slug)) = {})
        => (last'.resp.status = StatusNotFound /\ links' = links)]_vars

\* C5 off the admin routes: the first half of C5 for the slugs whose path
\* /<slug> is not one of the two registered admin paths.
C5_OffAdminRoutes ==
  [][(/\ last.handler = "handleAdminRemove"
      /\ last.resp.status = StatusOK
      /\ Route(<<"/">> \o last.resp.slug) = "handleRoot"
      /\ IsGet(last', <<"/">> \o last.resp.slug)
      /\ ~last'.dbFault)
     => last'.resp.status = StatusNotFound]_vars

\* C6 as stated: a request to /admin/add or /admin/remove whose method is not
\* POST yields 405 in both configurations and whatever its credentials, and
\* leaves the links unchanged.
C6_NotPostAlways405 ==
  [][(last'.handler \in AdminHandlers /\ last'.req.method # "POST")
     => (last'.resp.status = StatusMethodNotAllowed /\ links' = links)]_vars

\* C6 amended: a request to /admin/add or /admin/remove whose method is not
\* POST yields 405 when the gate is Open or its credentials match, and 401
\* when the gate is Guarded and its credentials are absent or do not match;
\* in both cases the links are unchanged.
C6_NotPost405BehindGate ==
  [][(last'.handler \in AdminHandlers /\ last'.req.method # "POST")
     => (/\ links' = links
         /\ (Open \/ ~Mismatch(last'.req.auth))
              => last'.resp.status = StatusMethodNotAllowed
         /\ (Guarded /\ Mismatch(last'.req.auth))
              => last'.resp.status = StatusUnauthorized)]_vars

C6_Witness ==
  /\ Guarded
  /\ last.handler = "handleAdminRemove"
  /\ last.req.method = "GET"
  /\ last.req.auth = GoodAuth
  /\ last.resp.status = StatusMethodNotAllowed
  /\ links # {}

\* C7: when the admin user or the admin password is not configured, every
\* request to an admin endpoint reaches the wrapped handler whatever its
\* credentials, and a valid add of a slug not yet stored, sent without
\* credentials, is answered 201 and the link is stored (unless the driver
\* fails the INSERT).
C7_OpenGate ==
  [][(Open /\ last'.handler \in AdminHandlers)
     => (/\ last'.invoked
         /\ last'.resp.status # StatusUnauthorized
         /\ (/\ last'.handler = "handleAdminAdd"
             /\ last'.req.method = "POST"
             /\ last'.req.auth = NoAuth
             /\ last'.req.body.ok
             /\ ValidSlug(TrimSpace(last'.req.body.slug))
             /\ ~NotHttpOrNoHost(TrimSpace(last'.req.body.url))
             /\ Parse(TrimSpace(last'.req.body.url)).err = FALSE
             /\ RowsOf(links, TrimSpace(last'.req.body.slug)) = {}
             /\ ~last'.dbFault)
            => (/\ last'.resp.status = StatusCreated
                /\ \E row \in links' :
                     /\ row.slug = TrimSpace(last'.req.body.slug)
                     /\ row.url = TrimSpace(last'.req.body.url)))]_vars

C7_Witness ==
  /\ adminUser = "root"
  /\ adminPass = ""
  /\ last.handler = "handleAdminAdd"
  /\ last.req.auth = NoAuth
  /\ last.resp.status = StatusCreated
  /\ \E row \in links : row.slug = StrWiki /\ row.url = UrlWiki

\* C8: in every reachable state slugs are unique, no stored slug is empty or
\* "admin", no stored slug has leading or trailing white space, and every
\* stored url is non-empty and starts with http:// or https://.
C8_StoreInvariant ==
  /\ \A r1, r2 \in links : r1.slug = r2.slug => r1 = r2
  /\ \A row \in links :
       /\ row.slug # <<>>
       /\ row.slug # StrAdmin
       /\ ~IsSpace(row.slug[1])
       /\ ~IsSpace(row.slug[Len(row.slug)])
       /\ row.url # <<>>
       /\ HasPrefix(row.url, HttpPrefix) \/ HasPrefix(row.url, HttpsPrefix)

C8_Witness ==
  /\ Cardinality(links) = 2
  /\ last.handler = "handleAdminAdd"
  /\ last.req.body.slug = StrWikiPadded
  /\ last.resp.status = StatusCreated

\* the handlers whose INSERT for slug was executed and not failed by the driver
Inserters(slug) ==
  {h \in 1 .. NumHandlers :
     /\ handlers[h].pc = "done"
     /\ handlers[h].slug = slug
     /\ ~handlers[h].dbFault}

\* C9: of the concurrent add requests for one slug that was absent at first
\* (equal or different urls), exactly one is answered 201 and every other one
\* 409, and the store holds exactly one link for the slug, with the url of
\* the request answered 201 (requests whose INSERT the driver fails aside).
C9_OneWinner ==
  \A slug \in {StrWiki, StrAdminAdd} :
    Inserters(slug) # {} =>
      \E w \in Inserters(slug) :
        /\ handlers[w].resp.status = StatusCreated
        /\ \A h \in Inserters(slug) \ {w} : handlers[h].resp.status = StatusConflict
        /\ Cardinality(RowsOf(links, slug)) = 1
        /\ \A row \in RowsOf(links, slug) : row.url = handlers[w].url

C9_Witness ==
  /\ handlers[1].pc = "done" /\ handlers[2].pc = "done"
  /\ handlers[1].req.body = Body(StrWiki, UrlWiki)
  /\ handlers[2].req.body = Body(StrWikiPadded, UrlX)
  /\ handlers[1].resp.status = StatusConflict
  /\ handlers[2].resp.status = StatusCreated
  /\ \E row \in links : row.slug = StrWiki /\ row.url = UrlX

\* C10: a stored link is never updated in place: a slug present before and
\* after a step keeps its url and created_at; a link appears only through an
\* add answered 201 and disappears only through a remove answered 200; GET
\* /<slug> and GET / leave the links unchanged.
C10_NoUpdateInPlace ==
  [][/\ \A row \in links : RowsOf(links', row.slug) # {} => row \in links'
     /\ (links' \ links) # {} =>
          /\ last'.handler = "handleAdminAdd"
          /\ last'.resp.status = StatusCreated
          /\ links' \ links = {CHOOSE row \in links' \ links : TRUE}
          /\ (links \ links') = {}
     /\ (links \ links') # {} =>
          /\ last'.handler = "handleAdminRemove"
          /\ last'.resp.status = StatusOK
          /\ (links' \ links) = {}
     /\ last'.handler = "handleRoot" => links' = links]_vars

C10_Witness ==
  /\ last.handler = "handleAdminRemove"
  /\ last.resp.status = StatusOK
  /\ last.resp.slug = StrWiki
  /\ \E row \in links : row.slug = StrAdminAdd /\ row.created_at = MaxTime

====
